---- MODULE Spec2Model ----
(***************************************************************************)
(* A model of the transfer engine of smb-to-s3-sync (src/src/sync.py):     *)
(* OptimizedS3Uploader.sync driving upload_file over a list of units on a  *)
(* ThreadPoolExecutor of max_workers threads, each thread with its own     *)
(* thread-local S3 client, the main thread recording every outcome in      *)
(* stats, the progress bar and the log, and print_summary at the end.      *)
(*                                                                         *)
(* A unit is identified by its position in the list; its source path is    *)
(* that position.  What the environment decides (whether the source file   *)
(* exists and how large it is, whether boto3.client can build a client     *)
(* for the configured region, whether the put of a unit succeeds, what     *)
(* time.time() returns) is drawn from small sets.                          *)
(***************************************************************************)
EXTENDS Integers, Sequences, FiniteSets, Bags, TLC

\* ---------------------------------------------------------------- bounds
MaxFiles == 2
MaxWorkers == 2
MaxTime == 1

\* the sizes os.path.getsize may report for an existing file
FileSizes == {1, 2}

\* ------------------------------------------------------------- sentinels
NoFile == -1
NoClient == 0
NoTime == -1
NoUnit == 0
NoExc == "none"

VARIABLES
    files,        \* the list handed to sync: <<1, ..., N>>
    fsize,        \* environment: size of each unit's source file, or NoFile
    put_ok,       \* environment: whether the put of each unit succeeds
    client_ok,    \* environment: whether boto3.client(...) succeeds
    dry_run,      \* config.dry_run
    max_workers,  \* config.max_workers
    pc,           \* where the main thread is in sync
    stats,        \* self.stats
    submitted,    \* how many units the comprehension has submitted
    queue,        \* the executor's work queue
    idle,         \* the executor's idle semaphore
    executor,     \* the ThreadPoolExecutor: "none", "open", "shutdown"
    wstate,       \* per thread: "unborn", "waiting", "running", "exited"
    wunit,        \* per thread: the unit it is running
    thread_local, \* per thread: self.thread_local.s3_client, or NoClient
    nclients,     \* how many clients boto3.client has built
    fstate,       \* per unit: its future, "none", "PENDING", "RUNNING", "FINISHED"
    outcome,      \* per unit: what upload_file returned
    escaped,      \* per unit: the exception upload_file let out, or NoExc
    recorded,     \* the units whose outcome sync has consumed, in that order
    pbar,         \* the tqdm bar: [open, n, postfix]
    log,          \* bag of log entries
    report,       \* what print_summary emitted, one record per call
    crashed,      \* the exception that left sync, or NoExc
    \* ---- observation only: what happened, never read by the program
    execs,        \* per unit: how often upload_file ran it
    got_client,   \* per thread: the clients get_s3_client returned to it
    built_by,     \* per thread: how many clients it had boto3.client build
    reused,       \* per thread: whether get_s3_client found its client cached
    get_in_unit,  \* per unit: whether its upload_file called get_s3_client
    puts,         \* per unit: the put (s3_client.upload_file) calls issued
    \* ---- main and Config
    mpc,          \* where main is
    mock_mode,    \* config.mock_mode (MOCK_MODE)
    args_mock,    \* args.mock (--mock)
    s3_bucket,    \* whether config.s3_bucket is non-empty
    smb_server,   \* whether config.smb_server is non-empty
    enum_ok,      \* environment: whether create_mock_data returns a list
    main_exc,     \* the exception that ended main, or NoExc
    runs          \* how many times sync was called again on the uploader

vars == << files, fsize, put_ok, client_ok, dry_run, max_workers, pc, stats,
           submitted, queue, idle, executor, wstate, wunit, thread_local,
           nclients,
           fstate, outcome, escaped, recorded, pbar, log, report, crashed,
           execs, got_client, built_by, reused, get_in_unit, puts,
           mpc, mock_mode, args_mock, s3_bucket, smb_server, enum_ok,
           main_exc, runs >>

main_vars == << mpc, mock_mode, args_mock, s3_bucket, smb_server, enum_ok,
                main_exc, runs >>

\* what time.time() may return.  Only differences of readings are used, so
\* the reading sync takes at its start is fixed (StartReading) and every
\* later reading is up to MaxTime after it or, the wall clock having been
\* set back, before it
StartReading == MaxTime
Clock == 0..(2 * MaxTime)

env_vars == << files, fsize, put_ok, client_ok, dry_run, max_workers >>

Units == 1..Len(files)
\* the executor starts at most one thread per submit, so a thread is named by
\* a number up to the length of the list; max_workers is enforced by submit
Threads == 1..Len(files)

Range(s) == {s[i] : i \in 1..Len(s)}

\* ------------------------------------------------------------ data shapes
\* the message of an outcome: the source path, and the cause on failure
Message(u, cause) == [path |-> u, cause |-> cause]

\* (success, message, bytes_transferred), what upload_file returns
Outcome(success, message, bytes) ==
    [success |-> success, message |-> message, bytes_transferred |-> bytes]

NoOutcome == Outcome(FALSE, Message(NoUnit, NoExc), 0)

LogEntry(level, origin, u, cause) ==
    [level |-> level, origin |-> origin, unit |-> u, cause |-> cause]

\* success / elapsed as an exact fraction, 0 when nothing has elapsed
Rate(success, elapsed) ==
    IF elapsed > 0 THEN [num |-> success, den |-> elapsed]
                   ELSE [num |-> 0, den |-> 1]

NoPostfix == [set |-> FALSE, rate |-> Rate(0, 0), failed |-> 0]

\* --------------------------------------------------------- get_s3_client
\* boto3.client builds a new object on every successful call
NewClient == nclients + 1

\* a faulty variant of get_s3_client: the client kept in one attribute of
\* the uploader, shared by all threads, instead of in thread_local
get_s3_client_shared(slot) ==
    IF nclients = 0
    THEN IF client_ok
         THEN [exc |-> NoExc, client |-> NewClient, slot |-> NewClient, built |-> 1]
         ELSE [exc |-> "client", client |-> NoClient, slot |-> slot, built |-> 0]
    ELSE [exc |-> NoExc, client |-> 1, slot |-> 1, built |-> 0]

\* get_s3_client on a thread whose thread_local.s3_client is `slot`
get_s3_client(slot) ==
    IF slot = NoClient
    THEN IF client_ok
         THEN [exc |-> NoExc, client |-> NewClient, slot |-> NewClient, built |-> 1]
         ELSE [exc |-> "client", client |-> NoClient, slot |-> slot, built |-> 0]
    ELSE [exc |-> NoExc, client |-> slot, slot |-> slot, built |-> 0]

\* ----------------------------------------------------------- upload_file
\* what one execution of upload_file did: the outcome it returned (ret) or
\* the exception it let out (raised), the thread's client slot afterwards,
\* the clients built, the client get_s3_client returned (got), whether
\* get_s3_client was called, whether a put was issued, and how many
\* logger.error calls it made
Did(ret, raised, slot, built, got, called, put, errors) ==
    [ret |-> ret, raised |-> raised, slot |-> slot, built |-> built,
     got |-> got, called_get |-> called, put |-> put, errors |-> errors]

\* the body of the try block; raised is the exception it ends with
try_body(u, slot) ==
    LET file_size == fsize[u]
    IN  IF file_size = NoFile
        THEN Did(NoOutcome, "getsize", slot, 0, NoClient, FALSE, FALSE, 0)
        ELSE LET g == get_s3_client(slot)
             IN  IF g.exc # NoExc
                 THEN Did(NoOutcome, g.exc, g.slot, 0, NoClient, TRUE, FALSE, 0)
                 ELSE IF dry_run
                 THEN Did(Outcome(TRUE, Message(u, NoExc), file_size), NoExc,
                          g.slot, g.built, g.client, TRUE, FALSE, 0)
                 ELSE IF put_ok[u]
                 THEN Did(Outcome(TRUE, Message(u, NoExc), file_size), NoExc,
                          g.slot, g.built, g.client, TRUE, TRUE, 0)
                 ELSE Did(NoOutcome, "put", g.slot, g.built, g.client,
                          TRUE, TRUE, 0)

\* a faulty variant of caught: a handler around the put alone
caught_put_only(exc) == exc = "put"

\* except Exception: every exception of the try block is caught
caught(exc) == TRUE

upload_file(u, slot) ==
    LET b == try_body(u, slot)
    IN  IF b.raised = NoExc THEN b
        ELSE IF caught(b.raised)
        THEN [b EXCEPT !.ret = Outcome(FALSE, Message(u, b.raised), 0),
                       !.raised = NoExc,
                       !.errors = 1]
        ELSE b

\* ------------------------------------------------------------------ Init
\* whether upload_file of unit u reaches the put, in the environment given
PutReached(sz, dry, cok, u) == sz[u] # NoFile /\ ~dry /\ cok

\* the uploader as OptimizedS3Uploader.__init__ leaves it, sync not yet
\* entered, for the list `files`
Constructed ==
    /\ pc = "call"
    /\ stats = [success |-> 0, failed |-> 0, bytes_transferred |-> 0,
                start_time |-> NoTime]
    /\ submitted = 0
    /\ queue = << >>
    /\ idle = 0
    /\ executor = "none"
    /\ wstate = [w \in 1..Len(files) |-> "unborn"]
    /\ wunit = [w \in 1..Len(files) |-> NoUnit]
    /\ thread_local = [w \in 1..Len(files) |-> NoClient]
    /\ nclients = 0
    /\ fstate = [u \in 1..Len(files) |-> "none"]
    /\ outcome = [u \in 1..Len(files) |-> NoOutcome]
    /\ escaped = [u \in 1..Len(files) |-> NoExc]
    /\ recorded = << >>
    /\ pbar = [open |-> FALSE, closed |-> FALSE, total |-> 0, n |-> 0,
               postfix |-> NoPostfix]
    /\ log = EmptyBag
    /\ report = << >>
    /\ crashed = NoExc
    /\ execs = [u \in 1..Len(files) |-> 0]
    /\ got_client = [w \in 1..Len(files) |-> {}]
    /\ built_by = [w \in 1..Len(files) |-> 0]
    /\ reused = [w \in 1..Len(files) |-> FALSE]
    /\ get_in_unit = [u \in 1..Len(files) |-> FALSE]
    /\ puts = [u \in 1..Len(files) |-> 0]
    /\ main_exc = NoExc
    /\ runs = 0

\* OptimizedS3Uploader.__init__, and a call of sync about to happen: with
\* any list of units, any environment and any configuration that Config
\* accepts
Init ==
    /\ \E n \in 0..MaxFiles : files = [i \in 1..n |-> i]
    /\ dry_run \in BOOLEAN
    /\ client_ok \in BOOLEAN
    /\ max_workers \in 1..MaxWorkers
    /\ fsize \in [1..Len(files) -> {NoFile} \cup FileSizes]
    \* the result of a put that is never issued is not part of the input
    /\ put_ok \in [1..Len(files) -> BOOLEAN]
    /\ \A u \in 1..Len(files) :
           ~PutReached(fsize, dry_run, client_ok, u) => put_ok[u]
    /\ mpc = "sync"
    /\ mock_mode = TRUE
    /\ args_mock = FALSE
    /\ s3_bucket = TRUE
    /\ smb_server = TRUE
    /\ enum_ok = TRUE
    /\ Constructed

\* ------------------------------------------------------------------ sync
pool_vars == << submitted, queue, idle, wstate, wunit, fstate >>

\* a faulty variant of may_spawn: a thread per submitted unit
may_spawn_always(num_threads) == TRUE

\* a faulty variant of may_spawn: no thread is ever started
may_spawn_never(num_threads) == FALSE

\* the pool's limit: a new thread is started only below max_workers
may_spawn(num_threads) == num_threads < max_workers
worker_vars == << thread_local, nclients, outcome, escaped >>
seen_vars == << execs, got_client, built_by, reused, get_in_unit, puts >>

\* a faulty variant of SyncEnter: sync without the check for an empty list
SyncEnter_unchecked ==
    /\ mpc = "sync"
    /\ pc = "call"
    /\ stats' = [stats EXCEPT !.start_time = StartReading]
    /\ executor' = "open"
    /\ pc' = "submit"
    /\ UNCHANGED << env_vars, main_vars, pool_vars, worker_vars, seen_vars, recorded,
                    pbar, log, report, crashed >>

\* sync is entered: an empty list is warned about and sync returns; else
\* the clock is started and the executor is created
SyncEnter ==
    /\ mpc = "sync"
    /\ pc = "call"
    /\ IF Len(files) = 0
       THEN /\ log' = log (+) SetToBag({LogEntry("WARNING", "sync", NoUnit, NoExc)})
            /\ pc' = "returned"
            /\ UNCHANGED << stats, executor >>
       ELSE /\ stats' = [stats EXCEPT !.start_time = StartReading]
            /\ executor' = "open"
            /\ pc' = "submit"
            /\ UNCHANGED log
    /\ UNCHANGED << env_vars, main_vars, pool_vars, worker_vars, seen_vars, recorded,
                    pbar, report, crashed >>

NumThreads == Cardinality({w \in Threads : wstate[w] # "unborn"})

\* executor.submit of the next unit of the list: a future is created and
\* queued, and a thread is started unless one is idle or max_workers exist
Submit ==
    /\ pc = "submit"
    /\ submitted < Len(files)
    /\ LET u == submitted + 1
       IN  /\ submitted' = u
           /\ fstate' = [fstate EXCEPT ![u] = "PENDING"]
           /\ queue' = Append(queue, u)
           /\ IF idle > 0
              THEN /\ idle' = idle - 1
                   /\ UNCHANGED wstate
              ELSE /\ UNCHANGED idle
                   /\ IF may_spawn(NumThreads)
                      THEN wstate' = [wstate EXCEPT ![NumThreads + 1] = "waiting"]
                      ELSE UNCHANGED wstate
    /\ UNCHANGED << env_vars, main_vars, pc, stats, executor, wunit, worker_vars,
                    seen_vars, recorded, pbar, log, report, crashed >>

\* all units are submitted: tqdm(total=len(files)) is opened and the loop
\* over as_completed begins
OpenBar ==
    /\ pc = "submit"
    /\ submitted = Len(files)
    /\ pbar' = [open |-> TRUE, closed |-> FALSE, total |-> Len(files), n |-> 0,
                postfix |-> NoPostfix]
    /\ pc' = "collect"
    /\ UNCHANGED << env_vars, main_vars, stats, pool_vars, executor, worker_vars,
                    seen_vars, recorded, log, report, crashed >>

Running == {w \in Threads : wstate[w] = "running"}

\* a pool thread takes the next work item and enters upload_file
Take(w) ==
    /\ wstate[w] = "waiting"
    /\ queue # << >>
    /\ LET u == Head(queue)
       IN  /\ queue' = Tail(queue)
           /\ wstate' = [wstate EXCEPT ![w] = "running"]
           /\ wunit' = [wunit EXCEPT ![w] = u]
           /\ fstate' = [fstate EXCEPT ![u] = "RUNNING"]
           /\ execs' = [execs EXCEPT ![u] = @ + 1]
    /\ UNCHANGED << env_vars, main_vars, pc, stats, submitted, idle, executor,
                    worker_vars, got_client, built_by, reused, get_in_unit, puts,
                    recorded, pbar, log, report, crashed >>

\* a faulty variant of worker_writes: the worker counts its own outcome in
\* self.stats
worker_writes_counting(w, u, d) ==
    /\ thread_local' = [thread_local EXCEPT ![w] = d.slot]
    /\ outcome' = [outcome EXCEPT ![u] = d.ret]
    /\ escaped' = [escaped EXCEPT ![u] = d.raised]
    /\ stats' = [stats EXCEPT !.success = @ + (IF d.ret.success THEN 1 ELSE 0),
                              !.failed = @ + (IF d.ret.success THEN 0 ELSE 1)]

\* what thread w has written of the uploader when its upload_file of unit u
\* ends as d: the thread's own client slot (get_s3_client), and the result
\* or exception of the unit's future; self.stats is not touched
worker_writes(w, u, d) ==
    /\ thread_local' = [thread_local EXCEPT ![w] = d.slot]
    /\ outcome' = [outcome EXCEPT ![u] = d.ret]
    /\ escaped' = [escaped EXCEPT ![u] = d.raised]
    /\ UNCHANGED stats

\* the thread runs upload_file to its end: the future gets the outcome (or
\* the exception), and the thread is idle again
Finish(w) ==
    /\ wstate[w] = "running"
    /\ LET u == wunit[w]
           d == upload_file(u, thread_local[w])
       IN  /\ worker_writes(w, u, d)
           /\ nclients' = nclients + d.built
           /\ fstate' = [fstate EXCEPT ![u] = "FINISHED"]
           /\ log' = IF d.errors > 0
                     THEN log (+) SetToBag({LogEntry("ERROR", "upload_file", u,
                                                     d.ret.message.cause)})
                     ELSE log
           /\ got_client' = IF d.got # NoClient
                            THEN [got_client EXCEPT ![w] = @ \cup {d.got}]
                            ELSE got_client
           /\ built_by' = [built_by EXCEPT ![w] = @ + d.built]
           /\ reused' = IF d.called_get /\ d.got # NoClient /\ d.built = 0
                        THEN [reused EXCEPT ![w] = TRUE]
                        ELSE reused
           /\ get_in_unit' = [get_in_unit EXCEPT ![u] = d.called_get]
           /\ puts' = IF d.put THEN [puts EXCEPT ![u] = @ + 1] ELSE puts
    /\ wstate' = [wstate EXCEPT ![w] = "waiting"]
    /\ wunit' = [wunit EXCEPT ![w] = NoUnit]
    /\ idle' = idle + 1
    /\ UNCHANGED << env_vars, main_vars, pc, submitted, queue, executor, execs,
                    recorded, pbar, report, crashed >>

\* two faulty variants of record: a failed outcome is not counted; the
\* bytes are assigned instead of added
record_skips_failed(st, o) ==
    IF o.success
    THEN [st EXCEPT !.success = @ + 1,
                    !.bytes_transferred = @ + o.bytes_transferred]
    ELSE st

record_assigns_bytes(st, o) ==
    IF o.success
    THEN [st EXCEPT !.success = @ + 1,
                    !.bytes_transferred = o.bytes_transferred]
    ELSE [st EXCEPT !.failed = @ + 1]

\* a faulty variant of record: a failed outcome counted as a success too
record_counts_both(st, o) ==
    IF o.success
    THEN [st EXCEPT !.success = @ + 1,
                    !.bytes_transferred = @ + o.bytes_transferred]
    ELSE [st EXCEPT !.failed = @ + 1, !.success = @ + 1]

\* lines 108-112: the outcome is counted in stats
record(st, o) ==
    IF o.success
    THEN [st EXCEPT !.success = @ + 1,
                    !.bytes_transferred = @ + o.bytes_transferred]
    ELSE [st EXCEPT !.failed = @ + 1]

\* line 113: the logger.error calls sync makes for an outcome
sync_errors(o) == IF o.success THEN 0 ELSE 1

\* lines 118-124: the postfix after an outcome was counted in st, the clock
\* reading t
set_postfix(pb, st, t) ==
    IF st.success > 0
    THEN [pb EXCEPT !.postfix = [set |-> TRUE,
                                 rate |-> Rate(st.success, t - st.start_time),
                                 failed |-> st.failed]]
    ELSE pb

\* line 115: pbar.update(1)
update(pb) == [pb EXCEPT !.n = @ + 1]

\* a faulty variant of AllRecorded: the loop left at the first failure
AllRecorded_fail_fast == Len(recorded) = Len(files) \/ stats.failed > 0

\* the loop over as_completed ends when every future has been yielded
AllRecorded == Len(recorded) = Len(files)

\* a faulty variant of yieldable: the futures waited for in the order of
\* their submission
yieldable_in_order(u) ==
    /\ fstate[u] = "FINISHED"
    /\ u \notin Range(recorded)
    /\ u = Len(recorded) + 1

\* as_completed yields a future once it is finished, each future once,
\* whatever the state of the others
yieldable(u) ==
    /\ fstate[u] = "FINISHED"
    /\ u \notin Range(recorded)

\* one turn of the loop over as_completed: a finished future not yet
\* consumed is yielded, and its outcome is counted, logged and shown
Collect(u) ==
    /\ pc = "collect"
    /\ yieldable(u)
    /\ IF escaped[u] # NoExc
       THEN \* future.result() raises what upload_file let out
            /\ crashed' = escaped[u]
            /\ pc' = "unwind"
            /\ UNCHANGED << stats, recorded, pbar, log >>
       ELSE LET o == outcome[u]
                st == record(stats, o)
            IN  /\ stats' = st
                /\ recorded' = Append(recorded, u)
                /\ log' = IF sync_errors(o) > 0
                          THEN log (+) SetToBag({LogEntry("ERROR", "sync",
                                   o.message.path, o.message.cause)})
                          ELSE log
                /\ \E t \in (IF st.success > 0 THEN Clock ELSE {0}) :
                       pbar' = set_postfix(update(pbar), st, t)
                /\ UNCHANGED << pc, crashed >>
    /\ UNCHANGED << env_vars, main_vars, pool_vars, executor, worker_vars, seen_vars,
                    report >>

\* the loop is over (or an exception unwinds): the bar is closed and the
\* executor is shut down, waiting for every thread to finish its work
Shutdown ==
    /\ pc \in {"collect", "unwind"}
    /\ pc = "collect" => AllRecorded
    /\ queue = << >>
    /\ Running = {}
    /\ pbar' = [pbar EXCEPT !.closed = TRUE]
    /\ executor' = "shutdown"
    /\ wstate' = [w \in Threads |->
                    IF wstate[w] = "unborn" THEN "unborn" ELSE "exited"]
    /\ pc' = IF pc = "unwind" THEN "raised" ELSE "summary"
    /\ UNCHANGED << env_vars, main_vars, stats, submitted, queue, idle, wunit,
                    fstate, worker_vars, seen_vars, recorded, log, report,
                    crashed >>

\* --------------------------------------------------------- print_summary
ReferenceFiles == 3000000
SecondsPerHour == 3600

\* a faulty variant of print_summary: the estimate computed whenever there
\* were files, without the test of the rate
print_summary_unguarded(st, t) ==
    LET elapsed == t - st.start_time
        total == st.success + st.failed
        rate == Rate(st.success, elapsed)
    IN  [total |-> total,
         success |-> st.success,
         failed |-> st.failed,
         bytes_transferred |-> st.bytes_transferred,
         elapsed |-> elapsed,
         rate |-> rate,
         estimate_shown |-> total > 0,
         estimated_hours |->
             IF total > 0
             THEN [num |-> ReferenceFiles * rate.den,
                   den |-> rate.num * SecondsPerHour]
             ELSE [num |-> 0, den |-> 1]]

\* the figures print_summary logs for stats st, the clock reading t
print_summary(st, t) ==
    LET elapsed == t - st.start_time
        total == st.success + st.failed
        rate == Rate(st.success, elapsed)
    IN  [total |-> total,
         success |-> st.success,
         failed |-> st.failed,
         bytes_transferred |-> st.bytes_transferred,
         elapsed |-> elapsed,
         rate |-> rate,
         estimate_shown |-> total > 0,
         estimated_hours |->
             IF total > 0 /\ rate.num > 0
             THEN [num |-> ReferenceFiles * rate.den,
                   den |-> rate.num * SecondsPerHour]
             ELSE [num |-> 0, den |-> 1]]

\* sync's last statement: the summary is logged and sync returns
PrintSummary ==
    /\ pc = "summary"
    /\ IF stats.start_time = NoTime
       THEN \* time.time() - None
            /\ crashed' = "TypeError"
            /\ pc' = "raised"
            /\ UNCHANGED report
       ELSE /\ \E t \in Clock :
                report' = Append(report, print_summary(stats, t))
            /\ pc' = "returned"
            /\ UNCHANGED crashed
    /\ UNCHANGED << env_vars, main_vars, stats, pool_vars, executor, worker_vars,
                    seen_vars, recorded, pbar, log >>

Next ==
    \/ SyncEnter
    \/ Submit
    \/ OpenBar
    \/ \E w \in Threads : Take(w)
    \/ \E w \in Threads : Finish(w)
    \/ \E u \in Units : Collect(u)
    \/ Shutdown
    \/ PrintSummary

Spec == Init /\ [][Next]_vars

\* ------------------------------------------------------------------ main
\* a faulty variant of post_init: the checks skipped in a dry run as well
post_init_lenient(mock, dry, bucket, server) ==
    IF ~mock /\ ~dry
    THEN IF ~bucket THEN "ValueError: S3_BUCKET"
         ELSE IF ~server THEN "ValueError: SMB_SERVER"
         ELSE NoExc
    ELSE NoExc

\* Config.__post_init__ (src/src/config.py): the exception it raises, or
\* NoExc; dry is config.dry_run, which it does not read
post_init(mock, dry, bucket, server) ==
    IF ~mock
    THEN IF ~bucket THEN "ValueError: S3_BUCKET"
         ELSE IF ~server THEN "ValueError: SMB_SERVER"
         ELSE NoExc
    ELSE NoExc

\* the size of every file create_mock_data writes, in units of 100 KiB
MockFileSize == 1

\* main is started: any configuration; the list is the one the enumeration
\* will return, of files create_mock_data has just written
InitMain ==
    /\ \E n \in 0..MaxFiles : files = [i \in 1..n |-> i]
    /\ dry_run \in BOOLEAN
    /\ client_ok \in BOOLEAN
    /\ max_workers \in 1..MaxWorkers
    /\ fsize = [u \in 1..Len(files) |-> MockFileSize]
    /\ put_ok \in [1..Len(files) -> BOOLEAN]
    /\ \A u \in 1..Len(files) :
           ~PutReached(fsize, dry_run, client_ok, u) => put_ok[u]
    /\ mpc = "start"
    /\ mock_mode \in BOOLEAN
    /\ args_mock \in BOOLEAN
    /\ s3_bucket \in BOOLEAN
    /\ smb_server \in BOOLEAN
    /\ enum_ok \in BOOLEAN
    /\ Constructed

sync_vars == << pc, stats, pool_vars, executor, worker_vars, seen_vars,
                recorded, pbar, log, report, crashed >>

\* config = Config(): the dataclass is built and __post_init__ validates it
MainConfig ==
    /\ mpc = "start"
    /\ LET exc == post_init(mock_mode, dry_run, s3_bucket, smb_server)
       IN  /\ main_exc' = exc
           /\ mpc' = IF exc = NoExc THEN "configured" ELSE "config_error"
    /\ UNCHANGED << env_vars, sync_vars, mock_mode, args_mock, s3_bucket,
                    smb_server, enum_ok, runs >>

\* whether main takes the mock branch
use_mock(args, mock) == args \/ mock

\* the list of files is obtained: from create_mock_data in the mock branch,
\* else from SMBHandler.list_all_files, which raises NotImplementedError
MainEnumerate ==
    /\ mpc = "configured"
    /\ IF use_mock(args_mock, mock_mode)
       THEN IF enum_ok
            THEN /\ mpc' = "enumerated"
                 /\ UNCHANGED main_exc
            ELSE /\ mpc' = "enum_error"
                 /\ main_exc' = "create_mock_data"
       ELSE /\ mpc' = "enum_error"
            /\ main_exc' = "NotImplementedError"
    /\ UNCHANGED << env_vars, sync_vars, mock_mode, args_mock, s3_bucket,
                    smb_server, enum_ok, runs >>

\* a faulty variant of goes_on: a failed enumeration is passed over
goes_on_anyway(at) == at \in {"enumerated", "enum_error"}

\* whether main goes on to the uploader after the enumeration step
goes_on(at) == at = "enumerated"

\* uploader = OptimizedS3Uploader(config); uploader.sync(files)
MainSync ==
    /\ goes_on(mpc)
    /\ mpc' = "sync"
    /\ UNCHANGED << env_vars, sync_vars, mock_mode, args_mock, s3_bucket,
                    smb_server, enum_ok, main_exc, runs >>

\* sync has returned (or raised): main logs the end (or ends with the
\* exception)
MainEnd ==
    /\ mpc = "sync"
    /\ pc \in {"returned", "raised"}
    /\ mpc' = "done"
    /\ main_exc' = IF crashed # NoExc THEN crashed ELSE main_exc
    /\ UNCHANGED << env_vars, sync_vars, mock_mode, args_mock, s3_bucket,
                    smb_server, enum_ok, runs >>

NextMain ==
    \/ MainConfig
    \/ MainEnumerate
    \/ MainSync
    \/ MainEnd
    \/ Next

SpecMain == InitMain /\ [][NextMain]_vars

\* ------------------------------------------------------------- fairness
\* the main thread, when it can take its next step in sync, takes it
MainThread ==
    \/ SyncEnter
    \/ Submit
    \/ OpenBar
    \/ \E u \in Units : Collect(u)
    \/ Shutdown
    \/ PrintSummary

\* pool thread w, when it can take a work item or end its upload_file,
\* does: threads are scheduled fairly and every upload_file terminates
PoolThread(w) == w \in Threads /\ (Take(w) \/ Finish(w))

FairSpec ==
    /\ Spec
    /\ WF_vars(MainThread)
    /\ \A w \in 1..MaxFiles : WF_vars(PoolThread(w))

\* ----------------------------------------------- one uploader, many runs
\* how many times sync is called again on the same uploader
MaxReruns == 1

\* sync has returned and is called again on the same OptimizedS3Uploader,
\* with the same list: what sync creates in a call (the executor and its
\* threads, with their thread-local slots, the futures, the bar) is new;
\* what __init__ created (self.stats) and what was logged stay as they are
SyncAgain ==
    /\ pc = "returned"
    /\ runs < MaxReruns
    /\ runs' = runs + 1
    /\ pc' = "call"
    /\ submitted' = 0
    /\ queue' = << >>
    /\ idle' = 0
    /\ executor' = "none"
    /\ wstate' = [w \in Threads |-> "unborn"]
    /\ wunit' = [w \in Threads |-> NoUnit]
    /\ thread_local' = [w \in Threads |-> NoClient]
    /\ fstate' = [u \in Units |-> "none"]
    /\ outcome' = [u \in Units |-> NoOutcome]
    /\ escaped' = [u \in Units |-> NoExc]
    /\ recorded' = << >>
    /\ pbar' = [open |-> FALSE, closed |-> FALSE, total |-> 0, n |-> 0,
                postfix |-> NoPostfix]
    /\ execs' = [u \in Units |-> 0]
    /\ got_client' = [w \in Threads |-> {}]
    /\ built_by' = [w \in Threads |-> 0]
    /\ reused' = [w \in Threads |-> FALSE]
    /\ get_in_unit' = [u \in Units |-> FALSE]
    /\ puts' = [u \in Units |-> 0]
    /\ UNCHANGED << env_vars, mpc, mock_mode, args_mock, s3_bucket, smb_server,
                    enum_ok, main_exc, stats, nclients, log, report, crashed >>

NextReuse ==
    \/ Next
    \/ SyncAgain

SpecReuse == Init /\ [][NextReuse]_vars

\* ======================================================================
\* The claims
\* ======================================================================
Finished(u) == fstate[u] = "FINISHED"
RunOver == pc = "returned" /\ Len(files) > 0

\* C1: when sync over a non-empty list of N units finishes, success + failed
\* is N, upload_file ran every unit exactly once, and every unit's outcome
\* was recorded exactly once, whatever the order of completion
C1_Completeness ==
    RunOver =>
        /\ stats.success + stats.failed = Len(files)
        /\ \A u \in Units : execs[u] = 1 /\ Finished(u)
        /\ Len(recorded) = Len(files)
        /\ Range(recorded) = Units
        /\ pbar.n = Len(files)

\* a run of two units, one succeeded and one failed, recorded in the
\* reverse of the order of submission
C1_Witness ==
    /\ RunOver
    /\ recorded = << 2, 1 >>
    /\ stats.success = 1
    /\ stats.failed = 1

\* what upload_file returns for unit u, from what the unit and the run's
\* configuration are alone: neither the thread that runs it nor any other
\* unit of the run enters
OwnOutcome(u) ==
    IF fsize[u] = NoFile THEN Outcome(FALSE, Message(u, "getsize"), 0)
    ELSE IF ~client_ok THEN Outcome(FALSE, Message(u, "client"), 0)
    ELSE IF dry_run \/ put_ok[u] THEN Outcome(TRUE, Message(u, NoExc), fsize[u])
    ELSE Outcome(FALSE, Message(u, "put"), 0)

SizeRaises(u) == fsize[u] = NoFile
PutRaises(u) == puts[u] > 0 /\ ~put_ok[u]

\* C2: a unit whose size resolution or put raises gets the failed outcome
\* (False, a message with its path and the cause, 0 bytes), no exception
\* leaves upload_file or sync, and every unit of the run is executed with
\* the outcome it has on its own, whichever other units fail
C2_FailureIsolated ==
    /\ crashed = NoExc
    /\ \A u \in Units :
        Finished(u) =>
            /\ escaped[u] = NoExc
            /\ outcome[u] = OwnOutcome(u)
            /\ (SizeRaises(u) \/ PutRaises(u)) =>
                   /\ ~outcome[u].success
                   /\ outcome[u].message.path = u
                   /\ outcome[u].message.cause \in {"getsize", "put"}
                   /\ outcome[u].bytes_transferred = 0
    /\ RunOver => \A u \in Units : Finished(u) /\ execs[u] = 1

\* a finished run in which the first unit's source is missing and the
\* second unit was uploaded
C2_Witness ==
    /\ RunOver
    /\ Len(files) = 2
    /\ SizeRaises(1)
    /\ ~outcome[1].success
    /\ puts[2] = 1
    /\ outcome[2].success

InUpload == {u \in Units : fstate[u] = "RUNNING"}

\* C3: at most max_workers upload_file operations have started and not yet
\* returned
C3_ConcurrencyBound == Cardinality(InUpload) <= max_workers

\* one worker allowed, one unit in upload_file and another waiting in the
\* queue for it
C3_Witness ==
    /\ max_workers = 1
    /\ Cardinality(InUpload) = 1
    /\ Len(queue) = 1

\* C4: every call of get_s3_client from one thread returns the same client,
\* a thread has at most one client built, and no client is returned to two
\* threads
C4_ClientPerThread ==
    /\ \A w \in Threads :
        /\ Cardinality(got_client[w]) <= 1
        /\ built_by[w] <= 1
        /\ thread_local[w] # NoClient => got_client[w] = {thread_local[w]}
    /\ \A w1, w2 \in Threads :
        w1 # w2 => got_client[w1] \cap got_client[w2] = {}

\* a thread ran two units and its second call returned the client built
\* by its first
C4_Witness ==
    \E w \in Threads :
        /\ reused[w]
        /\ built_by[w] = 1
        /\ Cardinality(got_client[w]) = 1

\* C5 (as claimed): in a dry run every unit whose source file exists gets a
\* success outcome carrying the file's size, and no put is ever issued
C5_DryRunSucceeds ==
    dry_run =>
        /\ \A u \in Units :
            (Finished(u) /\ fsize[u] # NoFile) =>
                /\ outcome[u].success
                /\ outcome[u].bytes_transferred = fsize[u]
        /\ \A u \in Units : puts[u] = 0

RECURSIVE SumBytes(_)
\* the bytes of the outcomes of the units in S, added up
SumBytes(S) ==
    IF S = {} THEN 0
    ELSE LET u == CHOOSE x \in S : TRUE
         IN  outcome[u].bytes_transferred + SumBytes(S \ {u})

RECURSIVE SumOwnBytes(_)
\* the bytes of the outcomes the units in S have on their own, added up
SumOwnBytes(S) ==
    IF S = {} THEN 0
    ELSE LET u == CHOOSE x \in S : TRUE
         IN  OwnOutcome(u).bytes_transferred + SumOwnBytes(S \ {u})

Consumed == Range(recorded)

\* C6: no update of stats is lost: success and failed count the success and
\* the failed outcomes consumed so far and bytes_transferred is the sum of
\* the bytes of the success outcomes, in whatever order the outcomes
\* arrive; after the run the totals are those of all the units' outcomes
C6_NoLostUpdate ==
    /\ stats.success = Cardinality({u \in Consumed : outcome[u].success})
    /\ stats.failed = Cardinality({u \in Consumed : ~outcome[u].success})
    /\ stats.bytes_transferred = SumBytes({u \in Consumed : outcome[u].success})
    /\ RunOver =>
        /\ stats.success = Cardinality({u \in Units : OwnOutcome(u).success})
        /\ stats.failed = Cardinality({u \in Units : ~OwnOutcome(u).success})
        /\ stats.bytes_transferred =
               SumOwnBytes({u \in Units : OwnOutcome(u).success})

\* a finished run of two uploaded files of sizes 1 and 2 whose outcomes
\* arrived in the reverse of the order of submission
C6_Witness ==
    /\ RunOver
    /\ recorded = << 2, 1 >>
    /\ fsize = << 1, 2 >>
    /\ stats.success = 2
    /\ stats.bytes_transferred = 3

EmptyRunOver == pc = "returned" /\ Len(files) = 0

Warnings == {e \in BagToSet(log) : e.level = "WARNING"}

\* C7: sync of an empty list logs a warning and returns with stats as
\* __init__ left them, no executor created, no unit submitted, no thread
\* started and the progress bar never opened or advanced
C7_EmptyRunFrame ==
    EmptyRunOver =>
        /\ stats = [success |-> 0, failed |-> 0, bytes_transferred |-> 0,
                    start_time |-> NoTime]
        /\ log = SetToBag({LogEntry("WARNING", "sync", NoUnit, NoExc)})
        /\ executor = "none"
        /\ submitted = 0
        /\ NumThreads = 0
        /\ ~pbar.open
        /\ pbar.n = 0

\* sync of an empty list has returned, the warning logged
C7_Witness ==
    /\ EmptyRunOver
    /\ Warnings # {}

\* C8 (as claimed): a run over an empty list produces a final report that
\* shows zero total files, and nothing is raised producing it
C8_EmptyRunReport ==
    EmptyRunOver =>
        /\ crashed = NoExc
        /\ Len(report) = 1
        /\ report[1].total = 0

\* C9 (as claimed): after every completion consumed by sync the bar has
\* advanced by one and the readout shows the current stats['failed']
C9_ReadoutCurrent ==
    /\ pbar.n = Len(recorded)
    /\ Len(recorded) > 0 =>
        /\ pbar.postfix.set
        /\ pbar.postfix.failed = stats.failed

Errors == {e \in BagToSet(log) : e.level = "ERROR"}

RECURSIVE Copies(_)
\* the number of log entries among the distinct entries S
Copies(S) ==
    IF S = {} THEN 0
    ELSE LET e == CHOOSE x \in S : TRUE
         IN  CopiesIn(e, log) + Copies(S \ {e})

\* C10 (as claimed): a run emits exactly one error-level log entry per
\* failed unit, naming the unit's source path and the cause
C10_OneErrorPerFailure ==
    RunOver =>
        /\ Copies(Errors) = stats.failed
        /\ \A e \in Errors :
            /\ ~outcome[e.unit].success
            /\ e.cause = outcome[e.unit].message.cause

ConfigRaised == mpc = "config_error"
Missing == ~s3_bucket \/ ~smb_server

\* C11 (as claimed): Config() fails exactly when the run is in neither mock
\* mode nor dry-run mode and the bucket or the share endpoint is missing
C11_ConfigErrorOutsideMockAndDryRun ==
    mpc # "start" => (ConfigRaised <=> (~mock_mode /\ ~dry_run /\ Missing))

\* C11 (amended): Config() fails exactly when config.mock_mode is off and
\* the bucket or the share endpoint is missing, the bucket being checked
\* first; dry-run mode and the --mock flag make no difference
C11_ConfigErrorOutsideMock ==
    mpc # "start" =>
        /\ ConfigRaised <=> (~mock_mode /\ Missing)
        /\ ConfigRaised =>
               main_exc = IF ~s3_bucket THEN "ValueError: S3_BUCKET"
                                        ELSE "ValueError: SMB_SERVER"
        /\ ~ConfigRaised => main_exc \notin {"ValueError: S3_BUCKET",
                                             "ValueError: SMB_SERVER"}

\* Config() has raised in a dry run, for the share endpoint alone
C11_Witness ==
    /\ ConfigRaised
    /\ dry_run
    /\ s3_bucket
    /\ ~smb_server
    /\ main_exc = "ValueError: SMB_SERVER"

SetupErrors == {"ValueError: S3_BUCKET", "ValueError: SMB_SERVER",
                "NotImplementedError", "create_mock_data"}
SetupFailed == main_exc \in SetupErrors

\* C12: when Config() or the enumeration of the files fails in main, sync
\* is never called: the uploader stays as constructed, no unit is submitted
\* or executed; and sync runs only in a main whose setup succeeded
C12_SetupFailureBeforeSync ==
    /\ SetupFailed =>
        /\ mpc \in {"config_error", "enum_error"}
        /\ pc = "call"
        /\ executor = "none"
        /\ submitted = 0
        /\ stats.start_time = NoTime
        /\ \A u \in Units : execs[u] = 0 /\ fstate[u] = "none"
    /\ pc # "call" => mpc \in {"sync", "done"}

\* SMBHandler.list_all_files has raised in a main that had units to upload
C12_Witness ==
    /\ mpc = "enum_error"
    /\ main_exc = "NotImplementedError"
    /\ Len(files) > 0
    /\ pc = "call"

Reports == {report[i] : i \in 1..Len(report)}

\* C13: the report's rate is success / elapsed, and 0 when no time has
\* elapsed; the estimate for 3,000,000 files is 3,000,000 / rate / 3600
\* when the rate is positive and 0 otherwise; no division has a zero
\* divisor, whatever the final statistics (every unit failed included)
C13_RateAndEstimate ==
    \A r \in Reports :
        /\ r.rate.den # 0
        /\ r.estimated_hours.den # 0
        /\ r.elapsed > 0 => r.rate = [num |-> r.success, den |-> r.elapsed]
        /\ r.elapsed <= 0 => r.rate.num = 0
        /\ r.rate.num > 0 =>
               /\ r.estimated_hours.num = ReferenceFiles * r.rate.den
               /\ r.estimated_hours.den = r.rate.num * SecondsPerHour
        /\ r.rate.num = 0 => r.estimated_hours.num = 0

\* the report of a run in which every unit failed and time has elapsed
C13_Witness ==
    \E r \in Reports :
        /\ r.success = 0
        /\ r.failed = 2
        /\ r.elapsed > 0

OneCounterUp ==
    \/ /\ stats'.success = stats.success + 1
       /\ stats'.failed = stats.failed
    \/ /\ stats'.success = stats.success
       /\ stats'.failed = stats.failed + 1

\* C14: in every step of a run over N units success + failed stays at most
\* N, neither counter decreases, and a step that consumes an outcome raises
\* exactly one of the two by exactly 1
C14_CountersBounded ==
    [][ /\ stats'.success + stats'.failed <= Len(files)
        /\ stats'.success >= stats.success
        /\ stats'.failed >= stats.failed
        /\ Len(recorded') = Len(recorded) + 1 => OneCounterUp
        /\ Len(recorded') = Len(recorded) =>
               /\ stats'.success = stats.success
               /\ stats'.failed = stats.failed ]_vars

\* mid-run, one success and one failure consumed
C14_Witness ==
    /\ pc = "collect"
    /\ Len(recorded) = 2
    /\ stats.success = 1
    /\ stats.failed = 1

\* C15 (as claimed): in a dry run upload_file neither calls get_s3_client
\* nor has a client built
C15_NoClientInDryRun ==
    dry_run =>
        /\ \A u \in Units : ~get_in_unit[u]
        /\ nclients = 0
        /\ \A w \in Threads : thread_local[w] = NoClient

Ended == pc \in {"summary", "returned"} \/ Len(report) > 0

\* C17: in a non-empty run print_summary is called exactly once, and only
\* when all N outcomes are recorded, every unit has finished and no pool
\* thread is left at work; sync does not return before, and no failure
\* makes it leave early
C17_SummaryAfterAll ==
    /\ Len(report) <= 1
    /\ pc \notin {"unwind", "raised"}
    /\ (Ended /\ Len(files) > 0) =>
        /\ Len(recorded) = Len(files)
        /\ Range(recorded) = Units
        /\ \A u \in Units : Finished(u)
        /\ queue = << >>
        /\ \A w \in Threads : wstate[w] \in {"unborn", "exited"}
    /\ RunOver => Len(report) = 1
    /\ Len(report) = 1 => pc = "returned"

\* a finished run whose first recorded outcome was a failure and whose
\* second was a success, summarised once
C17_Witness ==
    /\ RunOver
    /\ Len(report) = 1
    /\ Len(recorded) = 2
    /\ ~outcome[recorded[1]].success
    /\ outcome[recorded[2]].success

\* ------------------------------------------------------------------- C16
\* sync is at the start of a run over a non-empty list: the clock has been
\* started, nothing is submitted yet
RunStart == pc = "submit" /\ submitted = 0 /\ Len(files) > 0

\* C16: at the start of every run over a non-empty list the success, failed
\* and bytes counters are zero, and every report's total is the number of
\* units of its run
C16_FreshStats ==
    /\ RunStart => /\ stats.success = 0
                   /\ stats.failed = 0
                   /\ stats.bytes_transferred = 0
    /\ \A i \in 1..Len(report) : report[i].total = Len(files)


\* ------------------------------------------------------------------- C18
\* a unit has completed and waits to be recorded
Completed(u) == pc = "collect" /\ Finished(u) /\ u \notin Range(recorded)

\* C18: whenever a unit has completed, the orchestrator can record its
\* outcome at once, whatever the state of the units submitted before it
C18_CompletionOrder ==
    \A u \in Units : Completed(u) => ENABLED Collect(u)

\* the second unit recorded first, the first still in upload_file
C18_Witness ==
    /\ max_workers >= 2
    /\ Len(recorded) >= 1
    /\ recorded[1] = 2
    /\ fstate[1] = "RUNNING"

\* ------------------------------------------------------------------- C19
\* a step of a worker: the upload_file of unit u is entered or ends
WorkerStep(u) ==
    \/ fstate[u] = "PENDING" /\ fstate'[u] = "RUNNING"
    \/ fstate[u] = "RUNNING" /\ fstate'[u] = "FINISHED"

\* the step in which sync records the outcome of unit u
RecordingStep(u) ==
    /\ pc = "collect"
    /\ Finished(u)
    /\ recorded' = Append(recorded, u)
    /\ stats' = record(stats, outcome[u])

CountersOf(st) == << st.success, st.failed, st.bytes_transferred >>

\* C19: a step of a worker leaves stats (and what sync has recorded and
\* shown) as it is, and writes of the uploader's state only the client slot
\* of the thread running the unit and the outcome of that unit; the
\* counters change only in a step in which sync records an outcome
C19_WorkerFrame ==
    [][ /\ \A u \in Units : WorkerStep(u) =>
               /\ stats' = stats
               /\ recorded' = recorded
               /\ pbar' = pbar
               /\ report' = report
               /\ \A v \in Units \ {u} : /\ outcome'[v] = outcome[v]
                                         /\ escaped'[v] = escaped[v]
               /\ \A w \in Threads :
                      thread_local'[w] # thread_local[w] => wunit[w] = u
        /\ CountersOf(stats') # CountersOf(stats) =>
               \E u \in Units : RecordingStep(u) ]_vars

\* a worker has ended an upload with a new client in its slot, the outcome
\* a success not yet recorded, while a failure is already counted
C19_Witness ==
    /\ pc = "collect"
    /\ stats.failed = 1
    /\ \E u \in Units : /\ Finished(u)
                        /\ u \notin Range(recorded)
                        /\ outcome[u].success
                        /\ \E w \in Threads : thread_local[w] # NoClient

\* ------------------------------------------------------------------- C20
\* sync has returned with every unit run once, finished and recorded, and
\* the final report emitted
RunComplete ==
    /\ pc = "returned"
    /\ Len(report) = 1
    /\ Len(recorded) = Len(files)
    /\ \A u \in Units : Finished(u) /\ execs[u] = 1 /\ u \in Range(recorded)

\* C20: with fair scheduling and every upload_file terminating, a run over
\* a non-empty list eventually has every unit started, finished and
\* recorded, the final report emitted and sync returned
C20_Terminates == (Len(files) > 0 /\ pc = "call") ~> RunComplete

\* a run of two units on one worker is over, one a success, one a failure
C20_Witness ==
    /\ RunComplete
    /\ max_workers = 1
    /\ Len(files) = 2
    /\ stats.success = 1
    /\ stats.failed = 1

====
